---------------------------- MODULE Spec2Model ----------------------------
(***************************************************************************)
(* PyTreeFile: the skeleton assembler (meshes.py), the vector alignment,   *)
(* the ray-parity sampler and the height-profile aggregation (geom.py).    *)
(*                                                                         *)
(* Lengths and coordinates are integers (one unit = one grid step).  The   *)
(* vectors the alignment is applied to are drawn from sets on which the    *)
(* Euclidean norm is an integer, so that the Rodrigues formula is computed *)
(* exactly as a matrix of integers over one common denominator.            *)
(***************************************************************************)
EXTENDS Integers, Sequences, FiniteSets, TLC

VARIABLES
    tree_df,      \* recontruct_treefile: the segment table (a sequence of rows)
    index,        \* recontruct_treefile: the row the walk is at (1-based)
    mesh,         \* recontruct_treefile: the accumulated mesh, a sequence of cylinders
    printed,      \* recontruct_treefile: the rows for which 'error' was printed
    visited,      \* recontruct_treefile: the rows the loop body was entered for
    returned,     \* recontruct_treefile: TRUE once the mesh has been returned
    vec1, vec2,   \* rotation_matrix_from_vectors: its arguments
    rotation_matrix, \* rotation_matrix_from_vectors: its result, or NoMatrix before the call
    call,         \* geom.py: the function that is called ("none" when none is)
    x, y, z,      \* the axes of the sample grid (np.arange), as sequences
    scene,        \* the intersection count of the +Z ray of every grid point
    batch_size,   \* compute_mesh_volume_profile: batch_size
    start, end,   \* raycast_batch: the flat indices [start, end) of the batch
    cast,         \* the flat indices handed to scene.count_intersections, in order
    heights,      \* count_points_in_height_bins: points[:, 1]
    bin_size,     \* bin_size
    outcome,      \* "pending", "returned" or the exception raised
    result        \* the value returned

skel_vars == <<tree_df, index, mesh, printed, visited, returned>>
align_vars == <<vec1, vec2, rotation_matrix>>
geom_vars == <<call, x, y, z, scene, batch_size, start, end, cast, heights,
               bin_size, outcome, result>>
vars == <<skel_vars, align_vars, geom_vars>>

---------------------------------------------------------------------------
(* Bounds of the model.                                                    *)

\* the longest segment table
MaxRows == 2
\* the largest coordinate of a vector handed to the alignment
MaxCoord == 2
\* the largest number of samples along one axis of the grid
MaxAxis == 2
\* the largest batch size
MaxBatch == 3
\* the largest intersection count of a ray
MaxCount == 2
\* the largest number of points of a point cloud
MaxPoints == 3
\* the largest absolute height of a point
MaxHeight == 2
\* the largest bin size
MaxBin == 2

---------------------------------------------------------------------------
(* Vectors and matrices.                                                   *)

Dot(a, b) == a[1] * b[1] + a[2] * b[2] + a[3] * b[3]

Cross(a, b) ==
    << a[2] * b[3] - a[3] * b[2],
       a[3] * b[1] - a[1] * b[3],
       a[1] * b[2] - a[2] * b[1] >>

Sub(a, b) == << a[1] - b[1], a[2] - b[2], a[3] - b[3] >>

ISqrt(n) == CHOOSE r \in 0..n : r * r <= n /\ n < (r + 1) * (r + 1)

\* np.linalg.norm; exact on the vectors of the model, whose norm is an integer
Norm(v) == ISqrt(Dot(v, v))

HasIntegerNorm(v) == Norm(v) * Norm(v) = Dot(v, v)

Eye3 == << <<1, 0, 0>>, <<0, 1, 0>>, <<0, 0, 1>> >>

Zero3 == << <<0, 0, 0>>, <<0, 0, 0>>, <<0, 0, 0>> >>

MatMul(A, B) ==
    [i \in 1..3 |-> [j \in 1..3 |->
        A[i][1] * B[1][j] + A[i][2] * B[2][j] + A[i][3] * B[3][j]]]

MatScale(k, A) == [i \in 1..3 |-> [j \in 1..3 |-> k * A[i][j]]]

MatAdd(A, B) == [i \in 1..3 |-> [j \in 1..3 |-> A[i][j] + B[i][j]]]

MatVec(A, v) == [i \in 1..3 |-> Dot(A[i], v)]

\* the skew-symmetric cross-product matrix of v
Kmat(v) == << <<0, -v[3], v[2]>>, <<v[3], 0, -v[1]>>, <<-v[2], v[1], 0>> >>

\* a matrix all of whose entries are NaN
NaNMatrix == [nan |-> TRUE, num |-> Zero3, den |-> 0]

\* the value of rotation_matrix before rotation_matrix_from_vectors has run
NoMatrix == [nan |-> FALSE, num |-> Zero3, den |-> 0]

(***************************************************************************)
(* rotation_matrix_from_vectors(vec1, vec2).  With V = vec1 x vec2,        *)
(* D = vec1 . vec2 and N = |vec1| |vec2| the code computes v = V/N,        *)
(* c = D/N, s^2 = |V|^2/N^2 and                                            *)
(*   I + kmat + kmat.kmat * ((1 - c) / s^2)                                *)
(*     = (N|V|^2 I + |V|^2 K(V) + (N - D) K(V)^2) / (N |V|^2).             *)
(* The code has no guard: a zero norm divides 0 by 0, and s = 0 (parallel  *)
(* or anti-parallel arguments) makes (1 - c) / s^2 NaN or infinite, which  *)
(* multiplied by the zero matrix kmat.kmat is NaN in every entry.  numpy   *)
(* warns and does not raise.                                               *)
(***************************************************************************)
rotation_matrix_from_vectors(a, b) ==
    LET N  == Norm(a) * Norm(b)
        V  == Cross(a, b)
        D  == Dot(a, b)
        ss == Dot(V, V)
        K  == Kmat(V)
    IN  IF N = 0 \/ ss = 0
        THEN NaNMatrix
        ELSE [nan |-> FALSE,
              num |-> MatAdd(MatAdd(MatScale(N * ss, Eye3), MatScale(ss, K)),
                             MatScale(N - D, MatMul(K, K))),
              den |-> N * ss]

---------------------------------------------------------------------------
(* recontruct_treefile (meshes.py).                                        *)

\* the positions of the segments: every difference of two of them has an
\* integer norm (3, 4 or 5)
Positions == { <<0, 0, 0>>, <<0, 0, 4>>, <<3, 0, 0>> }

SectionIds == {-1, 1, 2}

ParentIds == {0, 1, 2, 7}

Radii == {0, 1}

\* one row of the table; x, y, z are its first three columns
Rows == [x : {0, 3}, y : {0}, z : {0, 4}, radius : Radii,
         parent_id : ParentIds, section_id : SectionIds]

RowPos(row) == << row.x, row.y, row.z >>

Tables == UNION { [1..n -> {r \in Rows : RowPos(r) \in Positions}] : n \in 0..MaxRows }

\* tree_df[tree_df['section_id'] == parent_id]: the matching rows, in table order
parent_section(df, parent_id) == SelectSeq(df, LAMBDA r : r.section_id = parent_id)

\* the row is skipped by the `continue` of line 26
IsSkipped(row) == row.parent_id = 0 \/ row.section_id = -1

\* parent_section.iloc[0, 0..2] raises IndexError when no row matches
LookupRaises(df, row) == Len(parent_section(df, row.parent_id)) = 0

\* start: the first three columns of the first matching row
CylinderStart(df, row) == RowPos(parent_section(df, row.parent_id)[1])

\* direction_vector(start, end)
direction_vector(point1, point2) == Sub(point2, point1)

\* length = |norm(end - start)|
SegmentLength(df, row) == Norm(Sub(RowPos(row), CylinderStart(df, row)))

\* create_cylinder as it would be if it built a cylinder of height zero
create_cylinder_accepts_zero_height(radius, height) == radius <= 0

\* TriangleMesh.create_cylinder(radius, height, ...) refuses a radius or a
\* height that is not positive by raising
create_cylinder_raises(radius, height) == radius <= 0 \/ height <= 0

\* the cylinder of a row, after rotate and translate
Cylinder(df, i) ==
    LET row  == df[i]
        from == CylinderStart(df, row)
    IN  [row         |-> i,
         radius      |-> row.radius,
         height      |-> SegmentLength(df, row),
         rotation    |-> rotation_matrix_from_vectors(
                             <<0, 0, 1>>, direction_vector(from, RowPos(row))),
         translation |-> from]

\* an exception is raised inside the try block for the row
RowRaises(df, row) ==
    \/ LookupRaises(df, row)
    \/ /\ ~LookupRaises(df, row)
       /\ create_cylinder_raises(row.radius, SegmentLength(df, row))

\* the merge as it would be if the cylinder replaced the accumulated mesh
Merge_replaces(m, cylinder) == << cylinder >>

\* mesh += cylinder
Merge(m, cylinder) == Append(m, cylinder)

\* the walk as it would be if an exception of a row ended the loop
AfterError_aborts(df, i) == Len(df) + 1

\* the row the loop goes to after the except block of a row
AfterError(df, i) == i + 1

IdleAlign ==
    /\ vec1 = <<0, 0, 0>>
    /\ vec2 = <<0, 0, 0>>
    /\ rotation_matrix = NoMatrix

NoResult == [edges |-> << >>, weights |-> << >>, inside |-> << >>]

IdleGeom ==
    /\ call = "none"
    /\ x = << >> /\ y = << >> /\ z = << >>
    /\ scene = << >>
    /\ batch_size = 1
    /\ start = 0 /\ end = 0
    /\ cast = << >>
    /\ heights = << >>
    /\ bin_size = 1
    /\ outcome = "pending"
    /\ result = NoResult

IdleSkeleton ==
    /\ tree_df = << >>
    /\ index = 1
    /\ mesh = << >>
    /\ printed = {}
    /\ visited = {}
    /\ returned = FALSE

InitSkeleton ==
    /\ tree_df \in Tables
    /\ index = 1
    /\ mesh = << >>
    /\ printed = {}
    /\ visited = {}
    /\ returned = FALSE
    /\ IdleAlign
    /\ IdleGeom

InLoop == ~returned /\ index <= Len(tree_df)

\* lines 25-26: the root or an unassigned row, `continue`
SkipRow ==
    /\ InLoop
    /\ IsSkipped(tree_df[index])
    /\ visited' = visited \cup {index}
    /\ index' = index + 1
    /\ UNCHANGED <<tree_df, mesh, printed, returned, align_vars, geom_vars>>

\* lines 50-51: an exception of the row is swallowed, 'error' is printed
FailRow ==
    /\ InLoop
    /\ ~IsSkipped(tree_df[index])
    /\ RowRaises(tree_df, tree_df[index])
    /\ visited' = visited \cup {index}
    /\ printed' = printed \cup {index}
    /\ index' = AfterError(tree_df, index)
    /\ UNCHANGED <<tree_df, mesh, returned, align_vars, geom_vars>>

\* lines 28-49: the cylinder is built, rotated, translated and merged
MergeRow ==
    /\ InLoop
    /\ ~IsSkipped(tree_df[index])
    /\ ~RowRaises(tree_df, tree_df[index])
    /\ visited' = visited \cup {index}
    /\ mesh' = Merge(mesh, Cylinder(tree_df, index))
    /\ index' = index + 1
    /\ UNCHANGED <<tree_df, printed, returned, align_vars, geom_vars>>

\* line 52: return mesh
ReturnMesh ==
    /\ ~returned
    /\ index > Len(tree_df)
    /\ returned' = TRUE
    /\ UNCHANGED <<tree_df, index, mesh, printed, visited, align_vars, geom_vars>>

NextSkeleton == SkipRow \/ FailRow \/ MergeRow \/ ReturnMesh

SpecSkeleton == InitSkeleton /\ [][NextSkeleton]_vars

---------------------------------------------------------------------------
(* rotation_matrix_from_vectors called on its own.                         *)

Coords == (0 - MaxCoord)..MaxCoord

\* the non-zero vectors of the cube whose norm is an integer
AlignVectors ==
    { v \in Coords \X Coords \X Coords : Dot(v, v) > 0 /\ HasIntegerNorm(v) }

InitAlign ==
    /\ vec1 \in AlignVectors
    /\ vec2 \in AlignVectors
    /\ rotation_matrix = NoMatrix
    /\ IdleSkeleton
    /\ IdleGeom

\* geom.py lines 34-43
Align ==
    /\ rotation_matrix = NoMatrix
    /\ rotation_matrix' = rotation_matrix_from_vectors(vec1, vec2)
    /\ UNCHANGED <<vec1, vec2, skel_vars, geom_vars>>

NextAlign == Align

SpecAlign == InitAlign /\ [][NextAlign]_vars

---------------------------------------------------------------------------
(* The ray-parity sampler and the height profile (geom.py).  One unit of   *)
(* length is voxel_size, so np.arange(min, max, voxel_size) is             *)
(* min, min + 1, ...; weights are in units of voxel_size.                  *)

\* np.arange(lo, lo + n, 1)
Axis(lo, n) == [k \in 1..n |-> lo + (k - 1)]

Range(s) == { s[k] : k \in 1..Len(s) }

GridPoints(xs, ys, zs) == Range(xs) \X Range(ys) \X Range(zs)

TotalSamples(xs, ys, zs) == Len(xs) * Len(ys) * Len(zs)

\* line 97: the point of flat index i (0-based, as are the subscripts)
PointOf(i, xs, ys, zs) ==
    << xs[(i \div (Len(ys) * Len(zs))) + 1],
       ys[((i \div Len(zs)) % Len(ys)) + 1],
       zs[(i % Len(zs)) + 1] >>

\* lines 95-100: batch_points, for i in range(s, e)
BatchPoints(s, e, xs, ys, zs) ==
    [k \in 1..(IF e > s THEN e - s ELSE 0) |-> PointOf(s + k - 1, xs, ys, zs)]

\* lines 95-111: batch_points[intersection_counts % 2 == 1]
raycast_batch(s, e, sc, xs, ys, zs) ==
    SelectSeq(BatchPoints(s, e, xs, ys, zs), LAMBDA p : sc[p] % 2 = 1)

\* the number of positional parameters of raycast_batch, none with a default
RaycastBatchParameters == 6

\* the number of arguments compute_mesh_volume_profile calls raycast_batch with
RaycastBatchArguments == 2

\* a Python call binds only when every parameter without default gets an argument
CallBinds(arguments, parameters) == arguments = parameters

\* range(0, total, bs)
BatchStarts(total, bs) == [k \in 1..((total + bs - 1) \div bs) |-> (k - 1) * bs]

Min2(a, b) == IF a < b THEN a ELSE b

RECURSIVE Concat(_)
\* np.vstack of a sequence of sequences
Concat(ss) == IF ss = << >> THEN << >> ELSE Head(ss) \o Concat(Tail(ss))

SeqMin(s) == CHOOSE m \in Range(s) : \A v \in Range(s) : m <= v

SeqMax(s) == CHOOSE m \in Range(s) : \A v \in Range(s) : v <= m

\* the number of entries v of s with lo <= v < hi
CountIn(s, lo, hi) == Len(SelectSeq(s, LAMBDA v : lo <= v /\ v < hi))

\* lines 178-196 on the z coordinates of the inside points
VolumeProfile(zc, bs) ==
    LET min_z    == SeqMin(zc)
        z_coords == IF min_z < 0 THEN [k \in 1..Len(zc) |-> zc[k] - min_z] ELSE zc
        z_bins   == [k \in 1..Len(zc) |-> z_coords[k] \div bs]
        \* np.bincount: one count per index 0..max(z_bins)
        bin_counts == [b \in 1..(SeqMax(z_bins) + 1) |->
                          CountIn(z_bins, b - 1, b)]
        bin_edges  == [b \in 1..Len(bin_counts) |->
                          (b - 1) * bs + (min_z - (min_z % bs))]
    IN  [edges |-> bin_edges, weights |-> bin_counts]

\* lines 162-196 of compute_mesh_volume_profile, from the grid on
ProfileRun(xs, ys, zs, sc, batch, bs) ==
    LET total  == TotalSamples(xs, ys, zs)
        starts == BatchStarts(total, batch)
        inside == Concat([k \in 1..Len(starts) |->
                     raycast_batch(starts[k], Min2(starts[k] + batch, total),
                                   sc, xs, ys, zs)])
        none   == [outcome |-> "pending", cast |-> << >>, result |-> NoResult]
    IN  IF Len(starts) > 0 /\ ~CallBinds(RaycastBatchArguments, RaycastBatchParameters)
        THEN \* line 164: raycast_batch() missing 4 required positional arguments
             [none EXCEPT !.outcome = "TypeError"]
        ELSE IF Len(starts) = 0
        THEN \* line 162: np.vstack of an empty list
             [none EXCEPT !.outcome = "ValueError"]
        ELSE IF inside = << >>
        THEN \* line 179: np.array([]) has one dimension
             [none EXCEPT !.outcome = "IndexError",
                          !.cast = [i \in 1..total |-> i - 1]]
        ELSE [outcome |-> "returned",
              cast    |-> [i \in 1..total |-> i - 1],
              result  |-> (VolumeProfile([k \in 1..Len(inside) |-> inside[k][3]], bs)
                             @@ [inside |-> inside])]

\* lines 65-77 of count_points_in_height_bins on the heights points[:, 1]
HeightBins(hs, bs) ==
    LET min_height == SeqMin(hs)
        max_height == SeqMax(hs)
        num_bins   == ((max_height - min_height) + bs - 1) \div bs
        \* np.linspace(min, min + num_bins * bs, num_bins + 1)
        bin_edges  == [k \in 1..(num_bins + 1) |-> min_height + (k - 1) * bs]
        \* np.histogram: bins [e_k, e_k+1), the last one closed on the right
        counts     == [k \in 1..num_bins |->
                          CountIn(hs, bin_edges[k], bin_edges[k + 1])
                          + (IF k = num_bins
                             THEN CountIn(hs, bin_edges[k + 1], bin_edges[k + 1] + 1)
                             ELSE 0)]
    IN  [edges |-> bin_edges, weights |-> counts, inside |-> << >>]

ZMins == {-1, 0}

InitGeom ==
    /\ call \in {"compute_mesh_volume_profile", "raycast_batch",
                 "count_points_in_height_bins"}
    /\ \E lx \in 0..MaxAxis, ly \in 0..MaxAxis, lz \in 0..MaxAxis, z0 \in ZMins :
          /\ call = "count_points_in_height_bins" => lx = 0 /\ ly = 0 /\ lz = 0
          /\ (lz = 0 \/ call # "compute_mesh_volume_profile") => z0 = 0
          /\ x = Axis(0, lx) /\ y = Axis(0, ly) /\ z = Axis(z0, lz)
    /\ scene \in [GridPoints(x, y, z) -> 0..MaxCount]
    /\ batch_size \in 1..MaxBatch
    /\ call # "compute_mesh_volume_profile" => batch_size = 1
    /\ start \in 0..TotalSamples(x, y, z)
    /\ end \in 0..TotalSamples(x, y, z)
    /\ IF call = "raycast_batch"
       THEN start < end /\ end - start <= MaxBatch
       ELSE start = 0 /\ end = 0
    /\ heights \in UNION { [1..n -> (0 - MaxHeight)..MaxHeight] : n \in 0..MaxPoints }
    /\ call # "count_points_in_height_bins" => heights = << >>
    /\ bin_size \in 1..MaxBin
    /\ call = "raycast_batch" => bin_size = 1
    /\ cast = << >>
    /\ outcome = "pending"
    /\ result = NoResult
    /\ IdleSkeleton
    /\ IdleAlign

\* compute_mesh_volume_profile, lines 162-196
ComputeMeshVolumeProfile ==
    /\ call = "compute_mesh_volume_profile"
    /\ outcome = "pending"
    /\ LET run == ProfileRun(x, y, z, scene, batch_size, bin_size)
       IN  /\ outcome' = run.outcome
           /\ cast' = run.cast
           /\ result' = run.result
    /\ UNCHANGED <<call, x, y, z, scene, batch_size, start, end, heights,
                   bin_size, skel_vars, align_vars>>

\* raycast_batch called with its six arguments, lines 95-111
RaycastBatch ==
    /\ call = "raycast_batch"
    /\ outcome = "pending"
    /\ outcome' = "returned"
    /\ cast' = [k \in 1..(end - start) |-> start + k - 1]
    /\ result' = [NoResult EXCEPT !.inside = raycast_batch(start, end, scene, x, y, z)]
    /\ UNCHANGED <<call, x, y, z, scene, batch_size, start, end, heights,
                   bin_size, skel_vars, align_vars>>

\* count_points_in_height_bins, lines 65-77
CountPointsInHeightBins ==
    /\ call = "count_points_in_height_bins"
    /\ outcome = "pending"
    /\ IF heights = << >>
       THEN \* line 66: np.min of an empty array
            outcome' = "ValueError" /\ result' = NoResult
       ELSE outcome' = "returned" /\ result' = HeightBins(heights, bin_size)
    /\ UNCHANGED <<call, x, y, z, scene, batch_size, start, end, cast, heights,
                   bin_size, skel_vars, align_vars>>

NextGeom == ComputeMeshVolumeProfile \/ RaycastBatch \/ CountPointsInHeightBins

SpecGeom == InitGeom /\ [][NextGeom]_vars

---------------------------------------------------------------------------
(* Properties of the skeleton assembler, checked under SpecSkeleton.       *)

\* the rows whose section_id is pid
MatchingRows(df, pid) == { j \in DOMAIN df : df[j].section_id = pid }

\* the first of them: the row the code takes the start point from
FirstParent(df, i) ==
    CHOOSE j \in MatchingRows(df, df[i].parent_id) :
        \A k \in MatchingRows(df, df[i].parent_id) : j <= k

\* the cylinders of the mesh that were built for row i
CylindersOf(i) == { k \in DOMAIN mesh : mesh[k].row = i }

\* a non-root row whose parent_id matches no section_id
Malformed(df, i) ==
    df[i].parent_id # 0 /\ MatchingRows(df, df[i].parent_id) = {}

OneMalformedRow == Cardinality({ i \in DOMAIN tree_df : Malformed(tree_df, i) }) = 1

\* a valid row: non-root, section_id # -1, parent resolvable, non-zero length
ValidRow(df, i) ==
    /\ df[i].parent_id # 0
    /\ df[i].section_id # -1
    /\ Cardinality(MatchingRows(df, df[i].parent_id)) = 1
    /\ RowPos(df[i]) # RowPos(df[FirstParent(df, i)])

\* C1 as stated: with one malformed row in the table the assembly visits
\* every row before it returns, and the returned mesh holds
\* exactly one cylinder for every valid row (non-root, section_id # -1, parent
\* resolvable, non-zero length) and none for the malformed row.
C1_PartialToleranceAsStated ==
    (returned /\ OneMalformedRow) =>
        /\ visited = DOMAIN tree_df
        /\ \A i \in DOMAIN tree_df :
              /\ ValidRow(tree_df, i) => Cardinality(CylindersOf(i)) = 1
              /\ Malformed(tree_df, i) => CylindersOf(i) = {}

\* C1 as amended: the same, for the valid rows whose radius is positive (a
\* row of radius 0 is refused by create_cylinder and skipped like any other
\* failing row).
C1_PartialTolerance ==
    (returned /\ OneMalformedRow) =>
        /\ visited = DOMAIN tree_df
        /\ \A i \in DOMAIN tree_df :
              /\ (ValidRow(tree_df, i) /\ tree_df[i].radius > 0)
                    => Cardinality(CylindersOf(i)) = 1
              /\ Malformed(tree_df, i) => CylindersOf(i) = {}

\* a returned mesh that holds the cylinder of a valid row that comes after the
\* one malformed row of the table
C1_Witness ==
    /\ returned
    /\ OneMalformedRow
    /\ \E m \in DOMAIN tree_df, v \in DOMAIN tree_df :
          /\ Malformed(tree_df, m)
          /\ m < v
          /\ ValidRow(tree_df, v)
          /\ Cardinality(CylindersOf(v)) = 1
          /\ CylindersOf(m) = {}

\* C7 as stated: a row contributes a cylinder only if its parent_id resolves
\* to exactly one row of the table (zero or several matches: skipped).
C7_UniqueParentAsStated ==
    \A k \in DOMAIN mesh :
        Cardinality(MatchingRows(tree_df, tree_df[mesh[k].row].parent_id)) = 1

\* a row that is neither root nor unassigned and lies on its parent's position
ZeroLength(df, i) ==
    /\ df[i].parent_id # 0
    /\ df[i].section_id # -1
    /\ MatchingRows(df, df[i].parent_id) # {}
    /\ RowPos(df[i]) = RowPos(df[FirstParent(df, i)])

\* C9: a zero-length segment is skipped and reported ('error' is printed for
\* it and no cylinder of it is in the mesh), no cylinder of height zero is
\* ever in the mesh, and the walk still visits every row before it returns.
C9_ZeroLengthSkipped ==
    /\ \A i \in visited :
          ZeroLength(tree_df, i) => (i \in printed /\ CylindersOf(i) = {})
    /\ \A k \in DOMAIN mesh : mesh[k].height > 0
    /\ returned => visited = DOMAIN tree_df

\* a zero-length row was reported and a later row was still merged
C9_Witness ==
    /\ returned
    /\ \E i \in DOMAIN tree_df, j \in DOMAIN tree_df :
          /\ ZeroLength(tree_df, i)
          /\ i \in printed
          /\ i < j
          /\ CylindersOf(j) # {}

\* the row fails at the parent lookup or at the cylinder construction
RowFails(df, i) ==
    \/ MatchingRows(df, df[i].parent_id) = {}
    \/ /\ MatchingRows(df, df[i].parent_id) # {}
       /\ \/ RowPos(df[i]) = RowPos(df[FirstParent(df, i)])
          \/ df[i].radius <= 0

\* C10: every step keeps the cylinders already merged, unmodified and in
\* place; the step of a root or unassigned row and the step of a failing row
\* leave the mesh unchanged; the step of any other row appends exactly one
\* cylinder, of that row, translated to the parent's position.
C10_MeshGrowsByMergeOnly ==
    [][ /\ Len(mesh') >= Len(mesh)
        /\ SubSeq(mesh', 1, Len(mesh)) = mesh
        /\ index' = index => mesh' = mesh
        /\ index' # index =>
              IF \/ tree_df[index].parent_id = 0
                 \/ tree_df[index].section_id = -1
                 \/ RowFails(tree_df, index)
              THEN mesh' = mesh
              ELSE /\ Len(mesh') = Len(mesh) + 1
                   /\ mesh'[Len(mesh')].row = index
                   /\ mesh'[Len(mesh')].translation =
                         RowPos(tree_df[FirstParent(tree_df, index)])
      ]_vars

\* a row was merged and a later row failed: the walk ended with the
\* cylinder of the first still in the mesh
C10_Witness ==
    /\ returned
    /\ \E i \in DOMAIN tree_df, j \in DOMAIN tree_df :
          /\ i < j
          /\ CylindersOf(i) # {}
          /\ j \in printed

---------------------------------------------------------------------------
(* Properties of the alignment, checked under SpecAlign.                   *)

\* C8 as stated: the result is never NaN; for parallel arguments it is the
\* identity, for anti-parallel arguments a rotation by 180 degrees (it maps
\* vec1 to -vec1).
C8_DegenerateHandledAsStated ==
    rotation_matrix # NoMatrix =>
        /\ ~rotation_matrix.nan
        /\ (Cross(vec1, vec2) = <<0, 0, 0>> /\ Dot(vec1, vec2) > 0) =>
              rotation_matrix.num = MatScale(rotation_matrix.den, Eye3)
        /\ (Cross(vec1, vec2) = <<0, 0, 0>> /\ Dot(vec1, vec2) < 0) =>
              MatVec(rotation_matrix.num, vec1)
                  = [i \in 1..3 |-> (0 - rotation_matrix.den) * vec1[i]]

---------------------------------------------------------------------------
(* Properties of the sampler and of the height profile, under SpecGeom.    *)

RECURSIVE SumSeq(_)
SumSeq(s) == IF s = << >> THEN 0 ELSE Head(s) + SumSeq(Tail(s))

ProfileDone == call = "compute_mesh_volume_profile" /\ outcome # "pending"

\* the grid points whose ray crosses the mesh an odd number of times
OddPoints == { p \in GridPoints(x, y, z) : scene[p] % 2 = 1 }

\* C2 as stated: whatever the batch size, the sampler returns exactly the
\* grid points of odd intersection count (stated here for a grid that has
\* points).
C2_ParityAsStated ==
    (ProfileDone /\ TotalSamples(x, y, z) > 0) =>
        /\ outcome = "returned"
        /\ Range(result.inside) = OddPoints

\* C3 as stated: the batches hand every flat index of [0, totalSamples) to
\* the ray caster exactly once, and with them every point of the grid.
C3_CoverageAsStated ==
    ProfileDone =>
        /\ Len(cast) = TotalSamples(x, y, z)
        /\ \A i \in 0..(TotalSamples(x, y, z) - 1) :
              Cardinality({ k \in DOMAIN cast : cast[k] = i }) = 1
        /\ \A p \in GridPoints(x, y, z) :
              Cardinality({ k \in DOMAIN cast : PointOf(cast[k], x, y, z) = p }) = 1

\* the samples the aggregation is given
Samples ==
    IF call = "count_points_in_height_bins"
    THEN heights
    ELSE SelectSeq([i \in 1..TotalSamples(x, y, z) |-> PointOf(i - 1, x, y, z)],
                   LAMBDA p : scene[p] % 2 = 1)

\* C4 as stated: for a non-empty set of samples the aggregation returns, and
\* the bin weights add up to the number of samples.
C4_BinningCompleteAsStated ==
    (call \in {"compute_mesh_volume_profile", "count_points_in_height_bins"}
        /\ outcome # "pending" /\ Samples # << >>) =>
        /\ outcome = "returned"
        /\ SumSeq(result.weights) = Len(Samples)

\* the heights of the interior samples
InsideHeights == [k \in 1..Len(Samples) |-> Samples[k][3]]

\* C5 as stated: edge i is i * binWidth + (min - min mod binWidth), and the
\* weight of bin i is the number of samples h with edge_i <= h < edge_i + binWidth.
C5_EdgesAsStated ==
    (ProfileDone /\ OddPoints # {}) =>
        /\ outcome = "returned"
        /\ \A b \in DOMAIN result.edges :
              result.edges[b] = (b - 1) * bin_size
                  + (SeqMin(InsideHeights) - (SeqMin(InsideHeights) % bin_size))
        /\ \A b \in DOMAIN result.weights :
              result.weights[b] =
                  CountIn(InsideHeights, result.edges[b], result.edges[b] + bin_size)

\* C6 as stated: with no interior sample the aggregation returns two empty
\* sequences.
C6_EmptyInputAsStated ==
    (ProfileDone /\ OddPoints = {}) =>
        /\ outcome = "returned"
        /\ result.edges = << >>
        /\ result.weights = << >>

=============================================================================
